---- MODULE Spec2Model ----
(***************************************************************************)
(* Model of generate_ics.py: the show-page scraper that turns a            *)
(* performer's paginated show history into one calendar file.              *)
(*                                                                         *)
(* Text is modelled as a sequence of Unicode code points, so that string   *)
(* comparison (sorting), str.replace, str.strip and the date-time regular  *)
(* expression are computed character by character as Python computes them. *)
(* List indices are kept 0-based as in the source; At(l, k) reads l[k].    *)
(***************************************************************************)
EXTENDS Integers, Sequences, FiniteSets, TLC

VARIABLES
    \* main()
    artists, idx, generated, no_shows, errors, files, pc,
    \* fetch_all_shows_for_artist()
    source, page, prev_hash, empty_streak, seen, all_items, stop,
    \* parse_show_html() run as a scan loop
    tokens, i, results, consumed, rejected,
    \* escape() applied to one text
    s, escaped

vars == <<artists, idx, generated, no_shows, errors, files, pc,
          source, page, prev_hash, empty_streak, seen, all_items, stop,
          tokens, i, results, consumed, rejected, s, escaped>>

mainVars   == <<artists, idx, generated, no_shows, errors, files>>
fetchVars  == <<source, page, prev_hash, empty_streak, seen, all_items, stop>>
parseVars  == <<tokens, i, results, consumed, rejected>>
escapeVars == <<s, escaped>>

(***************************************************************************)
(* Characters                                                              *)
(***************************************************************************)
BACKSLASH == 92
SEMICOLON == 59
COMMA     == 44
NEWLINE   == 10
CARRIAGE_RETURN == 13
LOWER_N   == 110
COLON     == 58
SPACE     == 32
HYPHEN    == 45
PIPE      == 124
FULLWIDTH_BAR == 65372
NIAN == 24180
YUE  == 26376
RI   == 26085
DIGIT_ZERO == 48

EMPTY == << >>

At(l, k) == l[k + 1]

\* Python's str comparison: lexicographic by code point.
RECURSIVE StrLess(_, _)
StrLess(a, b) ==
    IF b = EMPTY THEN FALSE
    ELSE IF a = EMPTY THEN TRUE
    ELSE IF Head(a) # Head(b) THEN Head(a) < Head(b)
    ELSE StrLess(Tail(a), Tail(b))

\* Python's tuple comparison of two equal-length tuples of str.
RECURSIVE TupleLess(_, _)
TupleLess(a, b) ==
    IF a = EMPTY \/ b = EMPTY THEN FALSE
    ELSE IF Head(a) # Head(b) THEN StrLess(Head(a), Head(b))
    ELSE TupleLess(Tail(a), Tail(b))

StartsWithAt(str, k, old) ==
    /\ k + Len(old) - 1 <= Len(str)
    /\ \A n \in 1..Len(old) : str[k + n - 1] = old[n]

\* str.replace(old, new): left to right, non-overlapping; old is non-empty.
RECURSIVE ReplaceFrom(_, _, _, _)
ReplaceFrom(str, k, old, new) ==
    IF k > Len(str) THEN EMPTY
    ELSE IF StartsWithAt(str, k, old)
         THEN new \o ReplaceFrom(str, k + Len(old), old, new)
         ELSE <<str[k]>> \o ReplaceFrom(str, k + 1, old, new)

replace(str, old, new) == ReplaceFrom(str, 1, old, new)

\* str.strip(chars): drop leading and trailing characters that are in chars.
RECURSIVE LStrip(_, _)
LStrip(str, chars) ==
    IF str # EMPTY /\ Head(str) \in chars THEN LStrip(Tail(str), chars) ELSE str

RECURSIVE RStrip(_, _)
RStrip(str, chars) ==
    IF str # EMPTY /\ str[Len(str)] \in chars
    THEN RStrip(SubSeq(str, 1, Len(str) - 1), chars) ELSE str

strip(str, chars) == RStrip(LStrip(str, chars), chars)

\* The whitespace str.strip() removes (the code points used by the model).
WHITESPACE == {SPACE, NEWLINE, CARRIAGE_RETURN, 9}

\* sep.join(parts)
RECURSIVE join(_, _)
join(sep, parts) ==
    IF parts = EMPTY THEN EMPTY
    ELSE IF Len(parts) = 1 THEN Head(parts)
    ELSE Head(parts) \o sep \o join(sep, Tail(parts))

(***************************************************************************)
(* escape (lines 27-36)                                                    *)
(***************************************************************************)
escape_no_backslash(str) ==
    IF str = EMPTY THEN EMPTY
    ELSE replace(replace(replace(str,
            <<SEMICOLON>>, <<BACKSLASH, SEMICOLON>>),
            <<COMMA>>,     <<BACKSLASH, COMMA>>),
            <<NEWLINE>>,   <<BACKSLASH, LOWER_N>>)

escape(str) ==
    IF str = EMPTY THEN EMPTY
    ELSE replace(replace(replace(replace(str,
            <<BACKSLASH>>, <<BACKSLASH, BACKSLASH>>),
            <<SEMICOLON>>, <<BACKSLASH, SEMICOLON>>),
            <<COMMA>>,     <<BACKSLASH, COMMA>>),
            <<NEWLINE>>,   <<BACKSLASH, LOWER_N>>)

(***************************************************************************)
(* int() and the format specs :04d / :02d                                  *)
(***************************************************************************)
IsDigit(c) == c \in DIGIT_ZERO..(DIGIT_ZERO + 9)

RECURSIVE int(_)
int(str) ==
    IF str = EMPTY THEN 0
    ELSE 10 * int(SubSeq(str, 1, Len(str) - 1)) + (str[Len(str)] - DIGIT_ZERO)

RECURSIVE str_of_int(_)
str_of_int(n) ==
    IF n < 10 THEN <<DIGIT_ZERO + n>>
    ELSE str_of_int(n \div 10) \o <<DIGIT_ZERO + (n % 10)>>

RECURSIVE ZeroFill(_, _)
ZeroFill(str, width) ==
    IF Len(str) >= width THEN str ELSE ZeroFill(<<DIGIT_ZERO>> \o str, width)

\* f"{n:0{width}d}" for n >= 0
format_0d(n, width) == ZeroFill(str_of_int(n), width)

(***************************************************************************)
(* DT_RE (line 19): (\d{4})年(\d{1,2})月(\d{1,2})日.*?(\d{1,2}:\d{2})       *)
(* \d is taken as the ASCII digits.                                        *)
(***************************************************************************)
DigitsAt(str, k, n) ==
    /\ k + n - 1 <= Len(str)
    /\ \A m \in k..(k + n - 1) : IsDigit(str[m])

\* \d{1,2} followed by the literal lit, at position k: the number of digits
\* matched (2 is tried first, then 1), or 0 when there is no match.
Digits12Then(str, k, lit) ==
    IF DigitsAt(str, k, 2) /\ k + 2 <= Len(str) /\ str[k + 2] = lit THEN 2
    ELSE IF DigitsAt(str, k, 1) /\ k + 1 <= Len(str) /\ str[k + 1] = lit THEN 1
    ELSE 0

\* (\d{1,2}:\d{2}) at position k: length of the group, or 0.
TimeGroupAt(str, k) ==
    LET n == Digits12Then(str, k, COLON)
    IN  IF n > 0 /\ DigitsAt(str, k + n + 1, 2) THEN n + 3 ELSE 0

\* (\d{4})年(\d{1,2})月(\d{1,2})日 at position k: the three groups and the
\* position after 日, or matched = FALSE.
DateGroupsAt(str, k) ==
    IF ~ (DigitsAt(str, k, 4) /\ k + 4 <= Len(str) /\ str[k + 4] = NIAN)
    THEN [matched |-> FALSE]
    ELSE LET n1 == Digits12Then(str, k + 5, YUE)
         IN  IF n1 = 0 THEN [matched |-> FALSE]
             ELSE LET k2 == k + 5 + n1 + 1
                      n2 == Digits12Then(str, k2, RI)
                  IN  IF n2 = 0 THEN [matched |-> FALSE]
                      ELSE [matched |-> TRUE,
                            year |-> SubSeq(str, k, k + 3),
                            mon  |-> SubSeq(str, k + 5, k + 5 + n1 - 1),
                            day  |-> SubSeq(str, k2, k2 + n2 - 1),
                            rest |-> k2 + n2 + 1]

\* .*?(\d{1,2}:\d{2}) from position k: the lazy run takes the fewest
\* characters, none of them a newline; returns the group or EMPTY.
RECURSIVE LazyTimeFrom(_, _)
LazyTimeFrom(str, k) ==
    IF k > Len(str) THEN EMPTY
    ELSE IF TimeGroupAt(str, k) > 0 THEN SubSeq(str, k, k + TimeGroupAt(str, k) - 1)
    ELSE IF str[k] = NEWLINE THEN EMPTY
    ELSE LazyTimeFrom(str, k + 1)

MatchAt(str, k) ==
    LET d == DateGroupsAt(str, k)
    IN  IF ~ d.matched THEN [matched |-> FALSE]
        ELSE LET t == LazyTimeFrom(str, d.rest)
             IN  IF t = EMPTY THEN [matched |-> FALSE]
                 ELSE [matched |-> TRUE, year |-> d.year, mon |-> d.mon,
                       day |-> d.day, hhmm |-> t]

\* DT_RE.search(str): the match at the leftmost position that has one.
RECURSIVE SearchFrom(_, _)
SearchFrom(str, k) ==
    IF k > Len(str) THEN [matched |-> FALSE]
    ELSE IF MatchAt(str, k).matched THEN MatchAt(str, k)
    ELSE SearchFrom(str, k + 1)

DT_RE_search(str) == SearchFrom(str, 1)

(***************************************************************************)
(* Tokens of the site's pages                                              *)
(***************************************************************************)
T_SHIJIAN    == <<26102, 38388>>                \* 时间
T_YINYUEJU   == <<38899, 20048, 21095>>         \* 音乐剧
T_JUESE      == <<35282, 33394>>                \* 角色
T_JUYUAN     == <<21095, 38498>>                \* 剧院
T_GUOWANG    == <<36807, 24448, 28436, 20986>>  \* 过往演出
T_ZUIXIN     == <<26368, 26032, 28436, 20986>>  \* 最新演出

bad_headers == {T_SHIJIAN, T_YINYUEJU, T_JUESE, T_JUYUAN, T_GUOWANG, T_ZUIXIN}

T_MUSICAL  == <<26576, 38899, 20048, 21095>>    \* 某音乐剧
T_ROLE     == <<20027, 35282>>                  \* 主角
T_SHANGHAI == <<19978, 28023>>                  \* 上海
T_BEIJING  == <<21271, 20140>>                  \* 北京
T_THEATRE  == <<88, 88, 21095, 38498>>          \* XX剧院
T_SUNDAY   == <<SPACE, 26143, 26399, 26085, SPACE>>   \* " 星期日 "
T_MONDAY   == <<SPACE, 26143, 26399, 19968, SPACE>>   \* " 星期一 "

\* The text of a date-time token: <year>年<mon>月<day>日<mid><hour>:<minute>,
\* each part given as the digits written on the page.
DateTimeToken(a) ==
    a.year \o <<NIAN>> \o a.mon \o <<YUE>> \o a.day \o <<RI>> \o a.mid
           \o a.hour \o <<COLON>> \o a.minute

D(n) == str_of_int(n)

A_JAN25_1400 == [year |-> D(2026), mon |-> D(1), day |-> D(25), mid |-> T_SUNDAY,
                 hour |-> D(14), minute |-> <<48, 48>>]
A_MAR1_1930  == [year |-> D(2026), mon |-> D(3), day |-> D(1), mid |-> T_SUNDAY,
                 hour |-> D(19), minute |-> <<51, 48>>]
A_JAN25_0905 == [year |-> D(2026), mon |-> D(1), day |-> D(25), mid |-> T_SUNDAY,
                 hour |-> D(9), minute |-> <<48, 53>>]
A_JAN5_0905  == [year |-> D(2026), mon |-> D(1), day |-> D(5), mid |-> T_MONDAY,
                 hour |-> D(9), minute |-> <<48, 53>>]
(***************************************************************************)
(* parse_show_html (lines 66-126), on the token list of the page           *)
(***************************************************************************)
RECURSIVE next_token(_, _)
next_token(toks, k) ==
    IF k < Len(toks) /\ At(toks, k) = EMPTY THEN next_token(toks, k + 1) ELSE k

TokenOrEmpty_header(toks, j) == IF j < Len(toks) THEN At(toks, j) ELSE T_JUESE

\* lines 96, 100, 104, 108: tokens[j] if j < len(tokens) else ""
TokenOrEmpty(toks, j) == IF j < Len(toks) THEN At(toks, j) ELSE EMPTY

\* lines 88-108: the four fields after the anchor at index k, and the index
\* j of the last one.
Fields(toks, k) ==
    LET j1 == next_token(toks, k + 1)
        j2 == next_token(toks, j1 + 1)
        j3 == next_token(toks, j2 + 1)
        j4 == next_token(toks, j3 + 1)
    IN  [musical |-> TokenOrEmpty(toks, j1),
         role    |-> TokenOrEmpty(toks, j2),
         city    |-> TokenOrEmpty(toks, j3),
         theatre |-> TokenOrEmpty(toks, j4),
         j       |-> j4]

\* lines 79 and 95-108: the indices of tokens the iteration at anchor k reads
\* into a record, the anchor's own index included.
Positions(toks, k) ==
    LET j1 == next_token(toks, k + 1)
        j2 == next_token(toks, j1 + 1)
        j3 == next_token(toks, j2 + 1)
        j4 == next_token(toks, j3 + 1)
    IN  {k} \cup { j \in {j1, j2, j3, j4} : j < Len(toks) }

\* line 85
date_iso(m) ==
    format_0d(int(m.year), 4) \o <<HYPHEN>> \o format_0d(int(m.mon), 2)
        \o <<HYPHEN>> \o format_0d(int(m.day), 2)

\* line 84: hhmm is group 4 of the match, taken as written
hhmm_of(m) == m.hhmm

IsBadHeader_musical(f) == f.musical \in bad_headers

\* line 111
IsBadHeader(f) == f.musical \in bad_headers \/ f.role \in bad_headers

\* lines 115-122
MakeItem(m, f) ==
    [date |-> date_iso(m), time |-> hhmm_of(m), musical |-> f.musical,
     role |-> f.role, city |-> f.city, theatre |-> f.theatre]

IsAnchor(toks, k)   == DT_RE_search(At(toks, k)).matched
IsRejected(toks, k) == IsAnchor(toks, k) /\ IsBadHeader(Fields(toks, k))
IsEmitted(toks, k)  == IsAnchor(toks, k) /\ ~ IsBadHeader(Fields(toks, k))

resume_after_reject_past_fields(toks, k) == Fields(toks, k).j + 1

\* line 112: after a rejected candidate, i += 1
resume_after_reject(toks, k) == k + 1

ScanStep_resume_after_anchor(toks, k, res) ==
    IF ~ IsAnchor(toks, k) THEN [i |-> k + 1, results |-> res]
    ELSE IF IsRejected(toks, k) THEN [i |-> resume_after_reject(toks, k), results |-> res]
    ELSE [i |-> k + 1,
          results |-> Append(res, MakeItem(DT_RE_search(At(toks, k)), Fields(toks, k)))]

\* One iteration of the while loop (lines 78-124) at index k.
ScanStep(toks, k, res) ==
    IF ~ IsAnchor(toks, k) THEN [i |-> k + 1, results |-> res]
    ELSE IF IsRejected(toks, k) THEN [i |-> resume_after_reject(toks, k), results |-> res]
    ELSE [i |-> Fields(toks, k).j + 1,
          results |-> Append(res, MakeItem(DT_RE_search(At(toks, k)), Fields(toks, k)))]

RECURSIVE ScanLoop(_, _, _)
ScanLoop(toks, k, res) ==
    IF k < Len(toks)
    THEN ScanLoop(toks, ScanStep(toks, k, res).i, ScanStep(toks, k, res).results)
    ELSE res

parse_show_html(toks) == ScanLoop(toks, 0, << >>)

(***************************************************************************)
(* list.sort(key=...) (line 166): stable, ascending by the key tuple       *)
(***************************************************************************)
sort_key(x) == <<x.date, x.time, x.musical, x.role>>

\* Insert x after the last element whose key is not greater than x's.
RECURSIVE InsertSorted(_, _)
InsertSorted(sorted, x) ==
    IF sorted = EMPTY THEN <<x>>
    ELSE IF TupleLess(sort_key(x), sort_key(Head(sorted)))
         THEN <<x>> \o sorted
         ELSE <<Head(sorted)>> \o InsertSorted(Tail(sorted), x)

RECURSIVE SortInto(_, _)
SortInto(sorted, rest) ==
    IF rest = EMPTY THEN sorted
    ELSE SortInto(InsertSorted(sorted, Head(rest)), Tail(rest))

sort_none(items) == items

sort(items) == SortInto(<< >>, items)

(***************************************************************************)
(* make_uid (lines 22-24).  sha1 is taken as injective: the digest of a    *)
(* text is represented by the text itself, tagged.                         *)
(***************************************************************************)
AT_SAOJU == <<64, 115, 97, 111, 106, 117>>     \* "@saoju"

hexdigest(raw) == <<"sha1", raw>>

make_uid(parts) == <<hexdigest(join(<<PIPE>>, parts)), AT_SAOJU>>

(***************************************************************************)
(* build_ics (lines 170-212)                                               *)
(***************************************************************************)
DURATION_HOURS == 2

IsLeap(y) == (y % 4 = 0 /\ y % 100 # 0) \/ y % 400 = 0

DaysInMonth(y, m) ==
    IF m = 2 THEN (IF IsLeap(y) THEN 29 ELSE 28)
    ELSE IF m \in {4, 6, 9, 11} THEN 30 ELSE 31

\* "YYYY-MM-DD" as produced by date_iso: the three numbers
IsoYear(d)  == int(SubSeq(d, 1, 4))
IsoMonth(d) == int(SubSeq(d, 6, 7))
IsoDay(d)   == int(SubSeq(d, 9, 10))

\* s["time"].split(":") : the text before and after the colon
RECURSIVE IndexOf(_, _, _)
IndexOf(str, c, k) ==
    IF k > Len(str) THEN 0 ELSE IF str[k] = c THEN k ELSE IndexOf(str, c, k + 1)

HourPart(t)   == SubSeq(t, 1, IndexOf(t, COLON, 1) - 1)
MinutePart(t) == SubSeq(t, IndexOf(t, COLON, 1) + 1, Len(t))

\* lines 183-185: date.fromisoformat and datetime(...) raise ValueError on a
\* date or a time of day that does not exist.
StartRaises(item) ==
    \/ IsoYear(item.date) < 1
    \/ IsoMonth(item.date) \notin 1..12
    \/ IsoDay(item.date) \notin 1..DaysInMonth(IsoYear(item.date), IsoMonth(item.date))
    \/ int(HourPart(item.time)) > 23
    \/ int(MinutePart(item.time)) > 59

start_of(item) ==
    [year |-> IsoYear(item.date), month |-> IsoMonth(item.date), day |-> IsoDay(item.date),
     hour |-> int(HourPart(item.time)), minute |-> int(MinutePart(item.time))]

\* line 186: wall-clock addition of the duration; TZ has a fixed offset for
\* the years concerned and datetime arithmetic does not consult it.
NextDay(t) ==
    IF t.day < DaysInMonth(t.year, t.month) THEN [t EXCEPT !.day = t.day + 1]
    ELSE IF t.month < 12 THEN [t EXCEPT !.day = 1, !.month = t.month + 1]
    ELSE [t EXCEPT !.day = 1, !.month = 1, !.year = t.year + 1]

add_hours_none(t, h) == t

add_hours(t, h) ==
    IF t.hour + h < 24 THEN [t EXCEPT !.hour = t.hour + h]
    ELSE [NextDay(t) EXCEPT !.hour = t.hour + h - 24]

\* line 186 raises OverflowError past year 9999
EndRaises(item) == add_hours(start_of(item), DURATION_HOURS).year > 9999

\* strftime('%Y%m%dT%H%M%S')
strftime(t) ==
    format_0d(t.year, 4) \o format_0d(t.month, 2) \o format_0d(t.day, 2) \o <<84>>
        \o format_0d(t.hour, 2) \o format_0d(t.minute, 2) \o <<48, 48>>

L_ARTIST  == <<28436, 21592, 65306>>    \* "演员："
L_ROLE    == <<35282, 33394, 65306>>    \* "角色："
L_CITY    == <<22478, 24066, 65306>>    \* "城市："
L_THEATRE == <<21095, 38498, 65306>>    \* "剧院："

L_CALNAME == <<32, 28436, 20986, 25490, 26399>>    \* " 演出排期"

summary_of(item)  == strip(item.musical \o <<FULLWIDTH_BAR>> \o item.role, {FULLWIDTH_BAR})
location_of(item) == strip(item.city \o <<SPACE>> \o item.theatre, WHITESPACE)
desc_of(artist_name, item) ==
    join(<<NEWLINE>>, <<L_ARTIST \o artist_name, L_ROLE \o item.role,
                        L_CITY \o item.city, L_THEATRE \o item.theatre>>)

uid_of_with_city(artist_id, artist_name, item) ==
    make_uid(<<artist_id, artist_name, item.date, item.time, item.musical, item.role,
               item.city>>)

\* line 197
uid_of(artist_id, artist_name, item) ==
    make_uid(<<artist_id, artist_name, item.date, item.time, item.musical, item.role>>)

\* lines 199-209: one VEVENT block, as its property values
VEvent(artist_id, artist_name, now_stamp, item) ==
    [uid         |-> uid_of(artist_id, artist_name, item),
     dtstamp     |-> now_stamp,
     dtstart     |-> strftime(start_of(item)),
     dtend       |-> strftime(add_hours(start_of(item), DURATION_HOURS)),
     summary     |-> escape(summary_of(item)),
     location    |-> escape(location_of(item)),
     description |-> escape(desc_of(artist_name, item))]

BuildRaises(shows) ==
    \E k \in 1..Len(shows) : StartRaises(shows[k]) \/ EndRaises(shows[k])

\* The calendar text, as the calendar name and the VEVENT blocks in order.
build_ics(artist_id, artist_name, shows, now_stamp) ==
    [calname |-> artist_name \o L_CALNAME,
     events  |-> [k \in 1..Len(shows) |-> VEvent(artist_id, artist_name, now_stamp, shows[k])]]

(***************************************************************************)
(* The site: what fetch_show_page_html (lines 57-63) returns               *)
(***************************************************************************)
\* A page body is named; Tokens gives the stripped strings BeautifulSoup
\* extracts from it (line 74).  Distinct names are distinct texts, and so
\* have distinct hashes.
A_DEC31_2330 == [year |-> D(2025), mon |-> D(12), day |-> D(31), mid |-> T_SUNDAY,
                 hour |-> D(23), minute |-> <<51, 48>>]
A_FEB30_1000 == [year |-> D(2026), mon |-> D(2), day |-> D(30), mid |-> T_MONDAY,
                 hour |-> D(10), minute |-> <<48, 48>>]

Row(a, city) == <<DateTimeToken(a), T_MUSICAL, T_ROLE, city, T_THEATRE>>

Bodies == {"blank", "headers", "pageA", "pageB", "pageC", "pageX", "pageM"}

Tokens(b) ==
    CASE b = "blank"   -> << >>
      [] b = "headers" -> <<T_ZUIXIN, T_SHIJIAN, T_YINYUEJU, T_JUESE, T_JUYUAN>>
      [] b = "pageA"   -> <<T_ZUIXIN, DateTimeToken(A_DEC31_2330),
                            T_SHIJIAN, T_YINYUEJU, T_JUESE, T_JUYUAN>>
                          \o Row(A_JAN25_1400, T_SHANGHAI)
      [] b = "pageB"   -> Row(A_JAN25_1400, T_BEIJING) \o Row(A_JAN25_0905, T_SHANGHAI)
      [] b = "pageC"   -> Row(A_JAN25_1400, T_SHANGHAI) \o Row(A_DEC31_2330, T_BEIJING)
                          \o Row(A_JAN25_1400, T_SHANGHAI)
      [] b = "pageX"   -> Row(A_FEB30_1000, T_SHANGHAI)
      [] b = "pageM"   -> Row(A_MAR1_1930, T_SHANGHAI)

\* parse_show_html applied to each page body the site can serve (line 150)
page_items == [b \in Bodies |-> parse_show_html(Tokens(b))]

\* requests raising (timeout, connection error, raise_for_status)
NetworkError == "NetworkError"

MaxPrefix == 3
MaxCycle  == 2

Min(a, b) == IF a < b THEN a ELSE b

\* The page sources: page p is prefix[p] for p up to the length of the
\* prefix; later pages repeat the last `cycle` pages of the prefix for ever
\* (cycle = 1: the site keeps serving its last page).
Sources ==
    UNION { { [prefix |-> pre, cycle |-> c] : c \in 1..Min(MaxCycle, Len(pre)) }
            : pre \in UNION { [1..n -> Bodies \cup {NetworkError}] : n \in 1..MaxPrefix } }

fetch_show_page_html(src, p) ==
    IF p <= Len(src.prefix) THEN src.prefix[p]
    ELSE src.prefix[Len(src.prefix) - src.cycle + 1 + ((p - Len(src.prefix) - 1) % src.cycle)]

NONE == << >>

(***************************************************************************)
(* The roster: the dict fetch_all_artists returned (line 216)              *)
(***************************************************************************)
P977  == [id |-> <<57, 55, 55>>, name |-> <<36213, 22869, 28982>>]     \* 977 赵奕然
\* The rosters: no performer, or the one performer.
Rosters == { << >>, <<P977>> }

\* utcnow() at the time build_ics runs
NowStamps == { <<50, 48, 50, 54, 48, 49, 48, 49, 84, 48, 48, 48, 48, 48, 48, 90>>,
               <<50, 48, 50, 54, 48, 49, 48, 50, 84, 49, 50, 51, 48, 48, 48, 90>> }

(***************************************************************************)
(* fetch_all_shows_for_artist (lines 129-167) and main (lines 215-252)     *)
(***************************************************************************)
RANGE_STOP == 500          \* for page in range(1, 500)
EMPTY_STREAK_LIMIT == 2    \* if empty_streak >= 2

is_repeat_never(h, prev) == FALSE

\* line 146
is_repeat(h, prev) == h = prev

next_prev_hash_first_page(h, prev) == IF prev = NONE THEN h ELSE prev

\* line 148: prev_hash = h
next_prev_hash(h, prev) == h

in_range_late(p) == p < RANGE_STOP + 2

\* line 142: page in range(1, 500)
in_range(p) == p < RANGE_STOP

streak_reached_late(n) == n >= EMPTY_STREAK_LIMIT + 1

\* line 154
streak_reached(n) == n >= EMPTY_STREAK_LIMIT

streak_after_records_kept(n) == n

\* line 158: empty_streak = 0
streak_after_records(n) == 0

item_key(it) == <<it.date, it.time, it.musical, it.role, it.city, it.theatre>>

RECURSIVE Collect_all(_, _, _)
Collect_all(items, seenSet, acc) ==
    IF items = EMPTY THEN [seen |-> seenSet, all_items |-> acc]
    ELSE Collect_all(Tail(items), seenSet \cup {item_key(Head(items))},
                     Append(acc, Head(items)))

\* lines 160-164: fold the items of one page into (seen, all_items)
RECURSIVE Collect(_, _, _)
Collect(items, seenSet, acc) ==
    IF items = EMPTY THEN [seen |-> seenSet, all_items |-> acc]
    ELSE IF item_key(Head(items)) \notin seenSet
         THEN Collect(Tail(items), seenSet \cup {item_key(Head(items))},
                      Append(acc, Head(items)))
         ELSE Collect(Tail(items), seenSet, acc)

IdleFetch ==
    /\ source = [prefix |-> <<"blank">>, cycle |-> 1]
    /\ page = 0 /\ prev_hash = NONE /\ empty_streak = 0
    /\ seen = {} /\ all_items = << >> /\ stop = "none"

IdleMain ==
    /\ artists = << >> /\ idx = 0
    /\ generated = 0 /\ no_shows = 0 /\ errors = 0 /\ files = {}

IdleParse  ==
    tokens = << >> /\ i = 0 /\ results = << >> /\ consumed = << >> /\ rejected = {}
IdleEscape == s = << >> /\ escaped = << >>

Init ==
    /\ artists \in Rosters
    /\ idx = 0 /\ generated = 0 /\ no_shows = 0 /\ errors = 0 /\ files = {}
    /\ pc = "main_loop"
    /\ IdleFetch /\ IdleParse /\ IdleEscape

\* The performer of the current iteration of main's loop (line 227).
artist == artists[idx]

\* The page the next iteration of the for loop at line 142 asks for.
NextPage == page + 1

\* line 227 takes the next performer; line 233 enters
\* fetch_all_shows_for_artist (lines 136-140).  The site's answer for this
\* performer is any of the page sources.
MainNextArtist ==
    /\ pc = "main_loop"
    /\ idx < Len(artists)
    /\ idx' = idx + 1
    /\ source' \in Sources
    /\ all_items' = << >> /\ seen' = {}
    /\ prev_hash' = NONE /\ empty_streak' = 0
    /\ page' = 0 /\ stop' = "none"
    /\ pc' = "fetching"
    /\ UNCHANGED <<artists, generated, no_shows, errors, files>>
    /\ UNCHANGED <<parseVars, escapeVars>>

\* line 143 raises; the exception leaves fetch_all_shows_for_artist and is
\* caught at line 234.
FetchRaises ==
    /\ pc = "fetching"
    /\ in_range(NextPage)
    /\ fetch_show_page_html(source, NextPage) = NetworkError
    /\ page' = NextPage
    /\ errors' = errors + 1
    /\ stop' = "error"
    /\ pc' = "main_loop"
    /\ UNCHANGED <<artists, idx, generated, no_shows, files>>
    /\ UNCHANGED <<source, prev_hash, empty_streak, seen, all_items>>
    /\ UNCHANGED <<parseVars, escapeVars>>

\* lines 145-147: the page has the hash of the page before; break, then
\* lines 166-167.
RepeatBreak ==
    /\ pc = "fetching"
    /\ in_range(NextPage)
    /\ fetch_show_page_html(source, NextPage) # NetworkError
    /\ is_repeat(hexdigest(fetch_show_page_html(source, NextPage)), prev_hash)
    /\ page' = NextPage
    /\ all_items' = sort(all_items)
    /\ stop' = "repeat"
    /\ pc' = "returned"
    /\ UNCHANGED <<mainVars, source, prev_hash, empty_streak, seen>>
    /\ UNCHANGED <<parseVars, escapeVars>>

\* lines 148-156: a page without items
EmptyPage ==
    /\ pc = "fetching"
    /\ in_range(NextPage)
    /\ fetch_show_page_html(source, NextPage) # NetworkError
    /\ ~ is_repeat(hexdigest(fetch_show_page_html(source, NextPage)), prev_hash)
    /\ page_items[fetch_show_page_html(source, NextPage)] = << >>
    /\ page' = NextPage
    /\ prev_hash' = next_prev_hash(hexdigest(fetch_show_page_html(source, NextPage)), prev_hash)
    /\ empty_streak' = empty_streak + 1
    /\ IF streak_reached(empty_streak + 1)
       THEN /\ all_items' = sort(all_items)
            /\ stop' = "empty"
            /\ pc' = "returned"
       ELSE UNCHANGED <<all_items, stop, pc>>
    /\ UNCHANGED <<mainVars, source, seen>>
    /\ UNCHANGED <<parseVars, escapeVars>>

\* lines 148-164: a page with items
CollectPage ==
    /\ pc = "fetching"
    /\ in_range(NextPage)
    /\ fetch_show_page_html(source, NextPage) # NetworkError
    /\ ~ is_repeat(hexdigest(fetch_show_page_html(source, NextPage)), prev_hash)
    /\ page_items[fetch_show_page_html(source, NextPage)] # << >>
    /\ LET c == Collect(page_items[fetch_show_page_html(source, NextPage)],
                        seen, all_items)
       IN  seen' = c.seen /\ all_items' = c.all_items
    /\ page' = NextPage
    /\ prev_hash' = next_prev_hash(hexdigest(fetch_show_page_html(source, NextPage)), prev_hash)
    /\ empty_streak' = streak_after_records(empty_streak)
    /\ UNCHANGED <<mainVars, source, stop, pc>>
    /\ UNCHANGED <<parseVars, escapeVars>>

\* line 142: range(1, 500) is exhausted; lines 166-167.
LoopExhausted ==
    /\ pc = "fetching"
    /\ ~ in_range(NextPage)
    /\ all_items' = sort(all_items)
    /\ stop' = "ceiling"
    /\ pc' = "returned"
    /\ UNCHANGED <<mainVars, source, page, prev_hash, empty_streak, seen>>
    /\ UNCHANGED <<parseVars, escapeVars>>

\* lines 240-244
MainNoShows ==
    /\ pc = "returned"
    /\ all_items = << >>
    /\ no_shows' = no_shows + 1
    /\ pc' = "main_loop"
    /\ UNCHANGED <<artists, idx, generated, errors, files>>
    /\ UNCHANGED <<fetchVars, parseVars, escapeVars>>

\* Path.write_text replaces the file of that name.
write_text(fs, name, text) ==
    { f \in fs : f.name # name } \cup { [name |-> name, text |-> text] }

\* lines 246-250
MainGenerate ==
    /\ pc = "returned"
    /\ all_items # << >>
    /\ ~ BuildRaises(all_items)
    /\ generated' = generated + 1
    /\ \E now \in NowStamps :
         files' = write_text(files, artist.id,
                             build_ics(artist.id, artist.name, all_items, now))
    /\ pc' = "main_loop"
    /\ UNCHANGED <<artists, idx, no_shows, errors>>
    /\ UNCHANGED <<fetchVars, parseVars, escapeVars>>

\* lines 246-249: build_ics raises at line 183 or 185; nothing catches it.
MainBuildRaises ==
    /\ pc = "returned"
    /\ all_items # << >>
    /\ BuildRaises(all_items)
    /\ generated' = generated + 1
    /\ pc' = "crashed"
    /\ UNCHANGED <<artists, idx, no_shows, errors, files>>
    /\ UNCHANGED <<fetchVars, parseVars, escapeVars>>

\* line 252
MainSummary ==
    /\ pc = "main_loop"
    /\ idx = Len(artists)
    /\ pc' = "done"
    /\ UNCHANGED <<mainVars, fetchVars, parseVars, escapeVars>>

Next ==
    \/ MainNextArtist
    \/ FetchRaises
    \/ RepeatBreak
    \/ EmptyPage
    \/ CollectPage
    \/ LoopExhausted
    \/ MainNoShows
    \/ MainGenerate
    \/ MainBuildRaises
    \/ MainSummary

Spec == Init /\ [][Next]_vars

(***************************************************************************)
(* parse_show_html run one loop iteration at a time                        *)
(***************************************************************************)
MaxTokens == 5

AnchorSpecs == {A_JAN25_1400, A_JAN25_0905, A_JAN5_0905, A_DEC31_2330, A_FEB30_1000}

\* The tokens of one page: one kind of date-time token, a header token and
\* two plain tokens, in any order.  Tokens are never empty (line 74).
PageAlphabet(a) == {DateTimeToken(a), T_JUESE, T_MUSICAL, T_SHANGHAI}

ShortTokenLists ==
    UNION { UNION { [1..n -> PageAlphabet(a)] : n \in 0..MaxTokens } : a \in AnchorSpecs }

\* Longer pages, with room for two records and for an anchor among the
\* fields of another: one kind of date-time token, a header token and a
\* plain token.
MaxLongTokens == 8

LongAlphabet == {DateTimeToken(A_JAN25_1400), T_JUESE, T_MUSICAL}

LongTokenLists ==
    UNION { [1..n -> LongAlphabet] : n \in (MaxTokens + 1)..MaxLongTokens }

TokenLists == ShortTokenLists \cup LongTokenLists

InitParse ==
    /\ tokens \in TokenLists
    /\ i = 0
    /\ results = << >>
    /\ consumed = << >>
    /\ rejected = {}
    /\ pc = "scanning"
    /\ IdleMain /\ IdleFetch /\ IdleEscape

\* lines 79-82
ScanSkip ==
    /\ pc = "scanning"
    /\ i < Len(tokens)
    /\ ~ IsAnchor(tokens, i)
    /\ i' = ScanStep(tokens, i, results).i
    /\ results' = ScanStep(tokens, i, results).results
    /\ UNCHANGED <<consumed, rejected>>
    /\ UNCHANGED <<tokens, pc, mainVars, fetchVars, escapeVars>>

\* lines 110-113
ScanReject ==
    /\ pc = "scanning"
    /\ i < Len(tokens)
    /\ IsRejected(tokens, i)
    /\ i' = ScanStep(tokens, i, results).i
    /\ results' = ScanStep(tokens, i, results).results
    /\ rejected' = rejected \cup {i}
    /\ UNCHANGED consumed
    /\ UNCHANGED <<tokens, pc, mainVars, fetchVars, escapeVars>>

\* lines 115-124
ScanEmit ==
    /\ pc = "scanning"
    /\ i < Len(tokens)
    /\ IsEmitted(tokens, i)
    /\ i' = ScanStep(tokens, i, results).i
    /\ results' = ScanStep(tokens, i, results).results
    /\ consumed' = Append(consumed, Positions(tokens, i))
    /\ UNCHANGED rejected
    /\ UNCHANGED <<tokens, pc, mainVars, fetchVars, escapeVars>>

\* line 126
ScanReturn ==
    /\ pc = "scanning"
    /\ ~ (i < Len(tokens))
    /\ pc' = "parsed"
    /\ UNCHANGED <<parseVars, mainVars, fetchVars, escapeVars>>

NextParse == ScanSkip \/ ScanReject \/ ScanEmit \/ ScanReturn

SpecParse == InitParse /\ [][NextParse]_vars

(***************************************************************************)
(* escape applied to one text                                              *)
(***************************************************************************)
MaxTextLen == 4

EscapeAlphabet == {BACKSLASH, SEMICOLON, COMMA, NEWLINE, CARRIAGE_RETURN, LOWER_N, 97}

Texts == UNION { [1..n -> EscapeAlphabet] : n \in 0..MaxTextLen }

InitEscape ==
    /\ s \in Texts
    /\ escaped = << >>
    /\ pc = "escape_call"
    /\ IdleMain /\ IdleFetch /\ IdleParse

\* lines 205-207 call escape on the text
Escape ==
    /\ pc = "escape_call"
    /\ escaped' = escape(s)
    /\ pc' = "escape_done"
    /\ UNCHANGED <<s, mainVars, fetchVars, parseVars>>

NextEscape == Escape

SpecEscape == InitEscape /\ [][NextEscape]_vars

(***************************************************************************)
(* Properties                                                              *)
(***************************************************************************)
Range(seq) == { seq[k] : k \in 1..Len(seq) }

\* The pages of a source that can differ from one another: every later page
\* repeats one of these.
Horizon(src) == Len(src.prefix) + src.cycle

IsBody(src, p) == fetch_show_page_html(src, p) \in Bodies

IsEmptyPage(src, p) == IsBody(src, p) /\ page_items[fetch_show_page_html(src, p)] = << >>

\* The pages parse_show_html was applied to when the loop was left.
ParsedPages == IF stop = "repeat" THEN 1..(page - 1) ELSE 1..page

\* C1: within the calendar written for one performer, no two events share a
\* uid.
C1_UniqueUids ==
    \A f \in files :
        \A k1, k2 \in 1..Len(f.text.events) :
            k1 # k2 => f.text.events[k1].uid # f.text.events[k2].uid

\* Pages 1, 2 and 3 have different bodies and every page from page 3 on has
\* the body of page 3.
PlateauAfterThree(src) ==
    /\ \A p \in 1..3 : IsBody(src, p)
    /\ fetch_show_page_html(src, 1) # fetch_show_page_html(src, 2)
    /\ fetch_show_page_html(src, 2) # fetch_show_page_html(src, 3)
    /\ fetch_show_page_html(src, 1) # fetch_show_page_html(src, 3)
    /\ \A p \in 3..(Horizon(src) + 3) :
           fetch_show_page_html(src, p) = fetch_show_page_html(src, 3)

\* C2 as stated: on a source that plateaus after page 3 the driver stops at
\* page 4, on the repeat, and page 5 is never requested.
C2_StopsAtPageFour ==
    PlateauAfterThree(source) =>
        /\ page <= 4
        /\ pc = "returned" => (page = 4 /\ stop = "repeat")

NoTwoEmptyInARow(src) ==
    /\ ~ (IsEmptyPage(src, 1) /\ IsEmptyPage(src, 2))
    /\ ~ (IsEmptyPage(src, 2) /\ IsEmptyPage(src, 3))

\* C2 amended: on a source that plateaus after page 3 and in which no two
\* neighbouring pages among pages 1 to 3 are both without records, the
\* driver stops at page 4, on the repeat, and page 5 is never requested.
C2_StopsAtPageFourUnlessEmpty ==
    (PlateauAfterThree(source) /\ NoTwoEmptyInARow(source)) =>
        /\ page <= 4
        /\ pc = "returned" => (page = 4 /\ stop = "repeat")

C2_Witness ==
    /\ PlateauAfterThree(source) /\ NoTwoEmptyInARow(source)
    /\ pc = "returned" /\ page = 4 /\ stop = "repeat"

AllPagesEmpty(src) == \A p \in 1..Horizon(src) : IsEmptyPage(src, p)

\* C3: on a source whose every page has no records, exactly pages 1 and 2
\* are fetched and the returned list is empty.
C3_StopsAfterTwoEmptyPages ==
    AllPagesEmpty(source) =>
        /\ page <= 2
        /\ pc = "returned" => (page = 2 /\ all_items = << >>)

C3_Witness ==
    /\ AllPagesEmpty(source)
    /\ fetch_show_page_html(source, 1) # fetch_show_page_html(source, 2)
    /\ pc = "returned" /\ page = 2 /\ stop = "empty" /\ all_items = << >>

\* C4: no page beyond 500 is ever fetched, and the page loop ends: every
\* step taken inside the loop either leaves it or moves on to the next page,
\* so the loop makes at most 500 iterations.
C4_CeilingAndTermination ==
    [][ /\ page' <= 500
        /\ (pc = "fetching" /\ pc' = "fetching") => page' = page + 1 ]_vars

C4_Witness == pc = "returned" /\ stop = "ceiling" /\ page = 499

\* C5: the returned list has no two records equal in all six fields, and
\* holds exactly the six-field tuples of the pages that were parsed.
C5_EachTupleOnce ==
    pc = "returned" =>
        /\ \A k1, k2 \in 1..Len(all_items) :
               k1 # k2 => item_key(all_items[k1]) # item_key(all_items[k2])
        /\ { item_key(it) : it \in Range(all_items) }
             = UNION { { item_key(it) : it \in Range(page_items[fetch_show_page_html(source, p)]) }
                       : p \in ParsedPages }

C5_Witness ==
    /\ pc = "returned"
    /\ 1 \in ParsedPages /\ 3 \in ParsedPages
    /\ fetch_show_page_html(source, 1) = "pageC"
    /\ fetch_show_page_html(source, 3) = "pageC"
    /\ Len(all_items) >= 2

\* C6: the returned list is non-decreasing by (date, time, production, role).
C6_SortedByKey ==
    pc = "returned" =>
        \A k \in 1..(Len(all_items) - 1) :
            ~ TupleLess(sort_key(all_items[k + 1]), sort_key(all_items[k]))

C6_Witness ==
    /\ pc = "returned"
    /\ fetch_show_page_html(source, 1) = "pageB"
    /\ fetch_show_page_html(source, 2) = "pageC"
    /\ 2 \in ParsedPages
    /\ Len(all_items) = 4

ExpectedDate(a) ==
    format_0d(int(a.year), 4) \o <<HYPHEN>> \o format_0d(int(a.mon), 2)
        \o <<HYPHEN>> \o format_0d(int(a.day), 2)

ExpectedTime(a) == format_0d(int(a.hour), 2) \o <<COLON>> \o a.minute

\* C7: the record emitted from a date-time token has the date zero-padded
\* as YYYY-MM-DD and the time zero-padded as HH:MM.
C7_ZeroPaddedDateAndTime ==
    [][ \A a \in AnchorSpecs :
          ( /\ pc = "scanning"
            /\ i < Len(tokens)
            /\ At(tokens, i) = DateTimeToken(a)
            /\ Len(results') = Len(results) + 1 )
          => /\ results'[Len(results')].date = ExpectedDate(a)
             /\ results'[Len(results')].time = ExpectedTime(a) ]_vars

\* C8: no record of parse_show_html has a header string as production or
\* role.
C8_NoHeaderRecords ==
    \A r \in Range(results) :
        r.musical \notin bad_headers /\ r.role \notin bad_headers

C8_Witness ==
    /\ pc = "parsed"
    /\ Len(tokens) = 3
    /\ IsAnchor(tokens, 0)
    /\ At(tokens, 1) = T_MUSICAL
    /\ At(tokens, 2) = T_JUESE
    /\ results = << >>

\* The four substitutions of escape undone one after the other, in the order
\* escape applied them.
UndoInOrder(str) ==
    replace(replace(replace(replace(str,
        <<BACKSLASH, BACKSLASH>>, <<BACKSLASH>>),
        <<BACKSLASH, SEMICOLON>>, <<SEMICOLON>>),
        <<BACKSLASH, COMMA>>,     <<COMMA>>),
        <<BACKSLASH, LOWER_N>>,   <<NEWLINE>>)

\* C9 as stated: undoing the substitutions in order gives back the text.
C9_RoundTrip == pc = "escape_done" => UndoInOrder(escaped) = s

NoBackslashBeforeN(str) ==
    \A k \in 1..(Len(str) - 1) : ~ (str[k] = BACKSLASH /\ str[k + 1] = LOWER_N)

\* C9 amended: undoing the substitutions in order gives back every text in
\* which no backslash stands immediately before the letter n.
C9_RoundTripWithoutBackslashN ==
    (pc = "escape_done" /\ NoBackslashBeforeN(s)) => UndoInOrder(escaped) = s

C9_Witness ==
    /\ pc = "escape_done"
    /\ {BACKSLASH, SEMICOLON, COMMA, NEWLINE} \subseteq Range(s)
    /\ NoBackslashBeforeN(s)
    /\ UndoInOrder(escaped) = s

\* C10: the escaped text holds no newline and no carriage return.
C10_NoNewlineNoCarriageReturn ==
    pc = "escape_done" =>
        \A k \in 1..Len(escaped) : escaped[k] \notin {NEWLINE, CARRIAGE_RETURN}

\* C11: whatever the pages of the site hold, main never aborts, and when it
\* prints the summary every performer of the roster was processed and
\* total = generated + no_shows + errors.
C11_NeverAborts ==
    /\ pc # "crashed"
    /\ pc = "done" =>
         /\ idx = Len(artists)
         /\ Len(artists) = generated + no_shows + errors

\* The fields the uid is claimed to depend on, next to the performer.
uid_fields(it) == <<it.date, it.time, it.musical, it.role>>

\* C12: in a written calendar the uid of an event is the same whatever the
\* time stamp of the build, and two events of the calendar have the same uid
\* exactly when their records agree on date, time, production and role,
\* whatever their city and venue.
C12_UidFunctionOfSixFields ==
    \A f \in files :
        /\ Len(f.text.events) = Len(all_items)
        /\ \A now \in NowStamps : \A k \in 1..Len(all_items) :
               build_ics(artist.id, artist.name, all_items, now).events[k].uid
                 = f.text.events[k].uid
        /\ \A k1, k2 \in 1..Len(all_items) :
               (uid_fields(all_items[k1]) = uid_fields(all_items[k2]))
                 <=> (f.text.events[k1].uid = f.text.events[k2].uid)

C12_Witness ==
    \E f \in files : \E k1, k2 \in 1..Len(all_items) :
        /\ Len(f.text.events) = Len(all_items)
        /\ uid_fields(all_items[k1]) = uid_fields(all_items[k2])
        /\ all_items[k1].city # all_items[k2].city
        /\ f.text.events[k1].uid = f.text.events[k2].uid
        /\ f.text.events[k1].location # f.text.events[k2].location

\* The site of the scenario: page 1 is the one row of 2026-03-01 19:30 and
\* page 2 is the same body.
MarchScenario ==
    /\ idx = 1 /\ artist = P977
    /\ fetch_show_page_html(source, 1) = "pageM"
    /\ fetch_show_page_html(source, 2) = "pageM"

\* C13: in the scenario exactly pages 1 and 2 are fetched, and the run
\* writes one file, for performer 977, holding one event with summary
\* 某音乐剧｜主角, location 上海 XX剧院, start 20260301T193000 and end
\* 20260301T213000.
C13_MarchScenario ==
    MarchScenario =>
        /\ page <= 2
        /\ pc # "crashed"
        /\ pc # "fetching" => page = 2 /\ stop = "repeat"
        /\ pc \in {"main_loop", "done"} =>
             /\ generated = 1 /\ no_shows = 0 /\ errors = 0
             /\ Cardinality(files) = 1
             /\ \A f \in files :
                  /\ f.name = <<57, 55, 55>>
                  /\ Len(f.text.events) = 1
                  /\ f.text.events[1].summary
                       = <<26576, 38899, 20048, 21095, 65372, 20027, 35282>>
                  /\ f.text.events[1].location = <<19978, 28023, 32, 88, 88, 21095, 38498>>
                  /\ f.text.events[1].dtstart
                       = <<50, 48, 50, 54, 48, 51, 48, 49, 84, 49, 57, 51, 48, 48, 48>>
                  /\ f.text.events[1].dtend
                       = <<50, 48, 50, 54, 48, 51, 48, 49, 84, 50, 49, 51, 48, 48, 48>>

C13_Witness ==
    /\ MarchScenario
    /\ pc = "done" /\ page = 2 /\ generated = 1
    /\ \E f \in files : Len(f.text.events) = 1

\* C14: every iteration of the scan moves the pointer forward, and the
\* token positions read into the records lie strictly before the pointer
\* and strictly increase from one record to the next, so no position
\* belongs to two records.
C14_NoPositionTwice ==
    [][ /\ (pc = "scanning" /\ pc' = "scanning") => i' > i
        /\ Len(consumed') = Len(results')
        /\ \A k \in 1..Len(consumed') : \A p \in consumed'[k] : p < i'
        /\ \A k1, k2 \in 1..Len(consumed') :
               k1 < k2 => \A p1 \in consumed'[k1] : \A p2 \in consumed'[k2] : p1 < p2 ]_vars

C14_Witness ==
    /\ pc = "parsed"
    /\ Len(results) = 2
    /\ consumed = << {0, 1, 2, 3, 4}, {5, 6} >>

\* The indices at which a record was emitted: the first position of each
\* set of consumed positions.
EmittedAnchors ==
    { q \in 0..(Len(tokens) - 1) :
        \E k \in 1..Len(consumed) : q \in consumed[k] /\ \A p \in consumed[k] : q <= p }

\* The token at q is a date-time token followed by four tokens of which
\* production and role are no header strings.
AnchorWithFourValidFields(q) ==
    /\ q + 4 < Len(tokens)
    /\ IsAnchor(tokens, q)
    /\ ~ IsBadHeader(Fields(tokens, q))

AmongDiscardedFields(r, q) == q \in (r + 1)..(r + 4) /\ q < Len(tokens)

\* C15 as stated: after a rejection the scan resumes at the next token, and
\* every date-time token among the discarded fields that is followed by
\* four valid fields is emitted as a record.
C15_DiscardedAnchorsEmitted ==
    [][ /\ rejected' # rejected => i' = i + 1
        /\ pc' = "parsed" =>
             \A r \in rejected : \A q \in 0..(Len(tokens) - 1) :
                 (AmongDiscardedFields(r, q) /\ AnchorWithFourValidFields(q))
                   => q \in EmittedAnchors ]_vars

NoAnchorBetween(r, q) == \A p \in (r + 1)..(q - 1) : ~ IsAnchor(tokens, p)

\* C15 amended: after a rejection the scan resumes at the next token, and
\* the first date-time token after the rejected anchor, when it lies among
\* the discarded fields and is followed by four valid fields, is emitted as
\* a record.
C15_FirstDiscardedAnchorEmitted ==
    [][ /\ rejected' # rejected => i' = i + 1
        /\ pc' = "parsed" =>
             \A r \in rejected : \A q \in 0..(Len(tokens) - 1) :
                 ( /\ AmongDiscardedFields(r, q)
                   /\ NoAnchorBetween(r, q)
                   /\ AnchorWithFourValidFields(q) )
                   => q \in EmittedAnchors ]_vars

C15_Witness ==
    /\ pc = "parsed"
    /\ 0 \in rejected
    /\ AmongDiscardedFields(0, 2) /\ NoAnchorBetween(0, 2) /\ AnchorWithFourValidFields(2)
    /\ 2 \in EmittedAnchors

IsRecordsPage(src, p) == IsBody(src, p) /\ page_items[fetch_show_page_html(src, p)] # << >>

\* The number of pages without records at the end of pages 1..p.
RECURSIVE TrailingEmpty(_, _)
TrailingEmpty(src, p) ==
    IF p >= 1 /\ IsEmptyPage(src, p) THEN 1 + TrailingEmpty(src, p - 1) ELSE 0

\* A single page without records between two pages with records.
LoneEmptyPage(src, p) ==
    /\ p >= 2
    /\ IsRecordsPage(src, p - 1) /\ IsEmptyPage(src, p) /\ IsRecordsPage(src, p + 1)

PageKeys(src, p) == { item_key(it) : it \in Range(page_items[fetch_show_page_html(src, p)]) }

\* C16: while pages are fetched the counter is the length of the unbroken
\* run of pages without records that ends at the page fetched last; the
\* driver stops on emptiness only at the second of two such pages in a row;
\* a single page without records between two pages with records does not
\* stop it, and the records of the page after it are collected (pages past
\* the horizon of the source repeat earlier ones and are not looked at again).
C16_EmptyStreakIsUnbrokenRun ==
    /\ (pc = "fetching" \/ stop = "empty") => empty_streak = TrailingEmpty(source, page)
    /\ stop = "empty" =>
         /\ page >= 2
         /\ IsEmptyPage(source, page) /\ IsEmptyPage(source, page - 1)
    /\ \A p \in 2..Min(page, Horizon(source)) :
         (stop # "error" /\ LoneEmptyPage(source, p)) =>
             /\ page = p => pc = "fetching"
             /\ page > p => PageKeys(source, p + 1) \subseteq { item_key(it) : it \in Range(all_items) }

C16_Witness ==
    /\ pc = "returned"
    /\ LoneEmptyPage(source, 2)
    /\ page >= 3
    /\ PageKeys(source, 3) \subseteq { item_key(it) : it \in Range(all_items) }
    /\ ~ (PageKeys(source, 3) \subseteq PageKeys(source, 1))

Keys(items) == { item_key(it) : it \in Range(items) }

\* C17: when page N is fetched the driver stops on the fingerprint exactly
\* when the body of page N is the body of page N-1, whether or not page N-1
\* had records; it then leaves the loop with the records, the seen set and
\* the empty counter as they were, page N not being parsed; otherwise page
\* N is parsed, also when it equals an earlier page that is not page N-1.
C17_RepeatOfPreviousPageOnly ==
    [][ ( /\ pc = "fetching"
          /\ page' = page + 1
          /\ IsBody(source, page + 1) )
        => /\ (stop' = "repeat") <=>
                (page >= 1 /\ fetch_show_page_html(source, page + 1)
                               = fetch_show_page_html(source, page))
           /\ stop' = "repeat" =>
                /\ pc' = "returned"
                /\ Keys(all_items') = Keys(all_items)
                /\ seen' = seen /\ empty_streak' = empty_streak
           /\ stop' # "repeat" =>
                /\ seen' = seen \cup PageKeys(source, page + 1)
                /\ IsEmptyPage(source, page + 1) => empty_streak' = empty_streak + 1 ]_vars

C17_Witness ==
    /\ page = 3
    /\ stop = "none" /\ pc = "fetching"
    /\ fetch_show_page_html(source, 1) = "pageA"
    /\ fetch_show_page_html(source, 2) = "pageB"
    /\ fetch_show_page_html(source, 3) = "pageA"

\* The performer of this iteration has been dealt with.
Processed == idx >= 1 /\ pc \in {"main_loop", "done", "crashed"}

HasFile(id) == \E f \in files : f.name = id

\* C18: once a performer has been dealt with, the performer's file exists
\* exactly when no fetch failed and the returned list has records; a
\* performer without records has no file and is counted in no_shows; a
\* performer with a failed fetch has no file and is counted once in errors,
\* whatever the pages before had yielded.
C18_FileIffFetchedAndNonEmpty ==
    Processed =>
        /\ HasFile(artist.id) <=> (stop # "error" /\ all_items # << >>)
        /\ (stop # "error" /\ all_items = << >>) =>
               (no_shows = 1 /\ generated = 0 /\ errors = 0)
        /\ stop = "error" => (errors = 1 /\ generated = 0 /\ no_shows = 0)

\* The calendar date and time of day of a record, as numbers.
Instant(it) ==
    <<IsoYear(it.date), IsoMonth(it.date), IsoDay(it.date),
      int(HourPart(it.time)), int(MinutePart(it.time))>>

RECURSIVE NumLess(_, _)
NumLess(a, b) ==
    IF a = << >> THEN FALSE
    ELSE IF Head(a) # Head(b) THEN Head(a) < Head(b)
    ELSE NumLess(Tail(a), Tail(b))

\* C19: in the returned list no record comes before a record with an
\* earlier date, or with the same date and an earlier time of day.
C19_ChronologicalOrder ==
    pc = "returned" =>
        \A k1, k2 \in 1..Len(all_items) :
            k1 < k2 => ~ NumLess(Instant(all_items[k2]), Instant(all_items[k1]))

\* The token n places after the scan pointer, or the empty text past the end.
Following(n) == IF i + n < Len(tokens) THEN At(tokens, i + n) ELSE EMPTY

\* C20: an iteration at a date-time token with fewer than four tokens after
\* it appends a record unless the production or the role that is present is
\* a header string; the record has the tokens that follow as its fields, in
\* order, and the empty text for the fields without a token; the pointer is
\* then past the last token, so the record is the last of the page.
C20_ShortTailStillEmitted ==
    [][ ( /\ pc = "scanning"
          /\ i < Len(tokens)
          /\ IsAnchor(tokens, i)
          /\ Len(tokens) - 1 - i < 4 )
        => IF Following(1) \in bad_headers \/ Following(2) \in bad_headers
           THEN results' = results
           ELSE /\ Len(results') = Len(results) + 1
                /\ SubSeq(results', 1, Len(results)) = results
                /\ results'[Len(results')].musical = Following(1)
                /\ results'[Len(results')].role    = Following(2)
                /\ results'[Len(results')].city    = Following(3)
                /\ results'[Len(results')].theatre = Following(4)
                /\ i' >= Len(tokens) ]_vars

C20_Witness ==
    /\ pc = "parsed"
    /\ Len(tokens) = 3
    /\ IsAnchor(tokens, 0)
    /\ Len(results) = 1
    /\ results[1].musical = T_MUSICAL
    /\ results[1].role # EMPTY
    /\ results[1].city = EMPTY /\ results[1].theatre = EMPTY

====
